---- MODULE Spec2Model ----
(***************************************************************************)
(* A model of the legacy response parser RTParser of rt_client.py, and of   *)
(* the record managers of rt_record_manager.py (specification SpecRM).     *)
(*                                                                         *)
(* A Python str is a sequence of one-character strings.  The body handed   *)
(* to the parser is drawn from Bodies: up to MaxLines physical lines of    *)
(* LineSet, each ended by a newline.  parse is run statement by statement  *)
(* (build, build_section's loop, decode's loop); parse_status_code is one  *)
(* step, its try/except included.                                          *)
(***************************************************************************)
EXTENDS Integers, Sequences, FiniteSets, TLC

\* The number of physical lines of a body.
MaxLines == 3

\* The number of calls made on the record managers of one client.
MaxCalls == 3

----------------------------------------------------------------------------
(* The inputs.                                                             *)

LField1    == <<"A", ":", " ", "1">>
LField2    == <<"B", ":", " ", "2">>
LKeySp     == <<"A", " ", ":", " ", "3", ":", "4", " ">>
LNoColon   == <<"x", " ">>
LCont      == <<" ", "w", " ">>
LTabCont   == <<"\t", "w">>
LSpaces    == <<" ">>
LBlank     == <<>>
LComment   == <<"#", " ", "c", "o", "m", "m", "e", "n", "t">>
LHeader    == <<"R", "T", "/", "4", ".", "4", ".", "3", " ", "2", "0", "0", " ",
                "O", "k">>
LDelim     == <<"-", "-">>
LDelimText == <<"-", "-", "z", ":", " ", "3">>

LineSet ==
    { LField1, LField2, LKeySp, LNoColon, LCont, LTabCont, LSpaces, LBlank,
      LComment, LHeader, LDelim, LDelimText }

RECURSIVE Join(_)
Join(ls) == IF ls = <<>> THEN <<>> ELSE Head(ls) \o <<"\n">> \o Join(Tail(ls))

LineSeqs == UNION { [1..n -> LineSet] : n \in 0..MaxLines }

\* Bodies of the documentation and of the status line, beside the generated ones.
ExTwoSections == Join(<<LDelim, LField1, LDelim, LField2>>)
ExFold        == <<"A", ":", " ", "h", "e", "l", "l", "o", "\n",
                   " ", "w", "o", "r", "l", "d", "\n">>
ExGarbage     == <<"g", "a", "r", "b", "a", "g", "e">>
ExTwoSpaces   == <<"a", " ", " ", "5", "\n">>
ExNegative    == <<"a", " ", "-", "5", "\n">>
ExUnderscore  == <<"a", " ", "1", "_", "0", "\n">>
ExTabBefore   == <<"a", " ", "\t", "7", "\n">>
ExTabInside   == <<"a", " ", "7", "\t", "b", "\n">>

Examples ==
    { ExTwoSections, ExFold, ExGarbage, ExTwoSpaces, ExNegative, ExUnderscore,
      ExTabBefore, ExTabInside }

Bodies == { Join(ls) : ls \in LineSeqs } \cup Examples

----------------------------------------------------------------------------
(* Python's str and re primitives, on the characters of the inputs.        *)

\* str.isspace() of one character
IsSpace(c) == c \in {" ", "\t", "\n", "\r", "\f"}

\* \d of one character
IsDigit(c) == c \in {"0", "1", "2", "3", "4", "5", "6", "7", "8", "9"}

DigitVal(c) ==
    CASE c = "0" -> 0 [] c = "1" -> 1 [] c = "2" -> 2 [] c = "3" -> 3
      [] c = "4" -> 4 [] c = "5" -> 5 [] c = "6" -> 6 [] c = "7" -> 7
      [] c = "8" -> 8 [] c = "9" -> 9

\* s[i:], 1-based
Drop(s, i) == SubSeq(s, i, Len(s))

RECURSIVE LStripSp(_)
LStripSp(s) ==
    IF s # <<>> /\ Head(s) = " " THEN LStripSp(Tail(s)) ELSE s

RECURSIVE RStripSp(_)
RStripSp(s) ==
    IF s # <<>> /\ s[Len(s)] = " " THEN RStripSp(SubSeq(s, 1, Len(s) - 1)) ELSE s

\* s.strip(' '): the space characters of both ends, and only those
StripSp(s) == RStripSp(LStripSp(s))

\* ':' in line
HasColon(line) == \E i \in 1..Len(line) : line[i] = ":"

FirstColon(line) == CHOOSE i \in 1..Len(line) :
                        line[i] = ":" /\ \A j \in 1..(i - 1) : line[j] # ":"

\* line.split(':', 1), for a line that holds a colon
SplitColon(line) ==
    << SubSeq(line, 1, FirstColon(line) - 1), Drop(line, FirstColon(line) + 1) >>

\* SECTION = re.compile(r'^--', re.M | re.U): a match starts at i
SectionMatchAt(s, i) ==
    /\ i = 1 \/ s[i - 1] = "\n"
    /\ i + 1 <= Len(s)
    /\ s[i] = "-"
    /\ s[i + 1] = "-"

\* SECTION.split(body): the text between the matches, the matched dashes removed
RECURSIVE SplitFrom(_, _, _)
SplitFrom(s, i, cur) ==
    IF i > Len(s) THEN <<cur>>
    ELSE IF SectionMatchAt(s, i) THEN <<cur>> \o SplitFrom(s, i + 2, <<>>)
    ELSE SplitFrom(s, i + 1, Append(cur, s[i]))

\* a split that discards the whole of a line that starts with two dashes
RECURSIVE SplitFrom_WholeLine(_, _, _, _)
SplitFrom_WholeLine(s, i, cur, skipping) ==
    IF i > Len(s) THEN <<cur>>
    ELSE IF skipping THEN SplitFrom_WholeLine(s, i + 1, cur, s[i] # "\n")
    ELSE IF SectionMatchAt(s, i) THEN <<cur>> \o SplitFrom_WholeLine(s, i + 2, <<>>, TRUE)
    ELSE SplitFrom_WholeLine(s, i + 1, Append(cur, s[i]), FALSE)

SectionSplit_WholeLine(b) == SplitFrom_WholeLine(b, 1, <<>>, FALSE)

\* a split that drops an empty piece before the first delimiter
SectionSplit_DropEmptyPrologue(b) ==
    IF Len(SplitFrom(b, 1, <<>>)) > 1 /\ Head(SplitFrom(b, 1, <<>>)) = <<>>
    THEN Tail(SplitFrom(b, 1, <<>>))
    ELSE SplitFrom(b, 1, <<>>)

SectionSplit(b) == SplitFrom(b, 1, <<>>)

\* str.splitlines(), the line boundary of the inputs being the newline
RECURSIVE SplitLinesFrom(_, _, _)
SplitLinesFrom(s, i, cur) ==
    IF i > Len(s) THEN (IF cur = <<>> THEN <<>> ELSE <<cur>>)
    ELSE IF s[i] = "\n" THEN <<cur>> \o SplitLinesFrom(s, i + 1, <<>>)
    ELSE SplitLinesFrom(s, i + 1, Append(cur, s[i]))

SplitLines(s) == SplitLinesFrom(s, 1, <<>>)

\* HEADER = re.compile(r'^RT/(?P<v>.+)\s+(?P<s>(?P<i>\d+).+)'), HEADER.match(line):
\* v is line[4..i], the white space line[i+1..j], a digit at j+1, one more
\* character at least after it
HeaderMatch(line) ==
    /\ Len(line) >= 3
    /\ line[1] = "R" /\ line[2] = "T" /\ line[3] = "/"
    /\ \E i \in 4..Len(line) : \E j \in (i + 1)..Len(line) :
          /\ \A k \in 4..i : line[k] # "\n"
          /\ \A k \in (i + 1)..j : IsSpace(line[k])
          /\ j + 2 <= Len(line)
          /\ IsDigit(line[j + 1])
          /\ line[j + 2] # "\n"

\* COMMENT = re.compile(r'^#\s+.+$'), COMMENT.match(line): the white space is
\* line[2..i], .+ is line[i+1..j] and holds no newline, $ is the end of the
\* string or the place before a newline that ends it
CommentMatch(line) ==
    /\ Len(line) >= 1
    /\ line[1] = "#"
    /\ \E i \in 2..Len(line) : \E j \in (i + 1)..Len(line) :
          /\ \A k \in 2..i : IsSpace(line[k])
          /\ \A k \in (i + 1)..j : line[k] # "\n"
          /\ \/ j = Len(line)
             \/ j = Len(line) - 1 /\ line[Len(line)] = "\n"

\* str.split(' '): every single space separates, so two spaces hold an empty token
RECURSIVE SplitSpaceFrom(_, _, _)
SplitSpaceFrom(s, i, cur) ==
    IF i > Len(s) THEN <<cur>>
    ELSE IF s[i] = " " THEN <<cur>> \o SplitSpaceFrom(s, i + 1, <<>>)
    ELSE SplitSpaceFrom(s, i + 1, Append(cur, s[i]))

SplitSpace(s) == SplitSpaceFrom(s, 1, <<>>)

RECURSIVE LStripWs(_)
LStripWs(s) == IF s # <<>> /\ IsSpace(Head(s)) THEN LStripWs(Tail(s)) ELSE s

RECURSIVE RStripWs(_)
RStripWs(s) ==
    IF s # <<>> /\ IsSpace(s[Len(s)]) THEN RStripWs(SubSeq(s, 1, Len(s) - 1)) ELSE s

RECURSIVE DigitsValue(_, _)
DigitsValue(s, acc) ==
    IF s = <<>> THEN acc
    ELSE IF Head(s) = "_" THEN DigitsValue(Tail(s), acc)
    ELSE DigitsValue(Tail(s), 10 * acc + DigitVal(Head(s)))

\* the digits of an int() literal: digits, single underscores between them
IsDigits(s) ==
    /\ s # <<>>
    /\ IsDigit(s[1]) /\ IsDigit(s[Len(s)])
    /\ \A i \in 1..Len(s) : IsDigit(s[i]) \/ s[i] = "_"
    /\ \A i \in 1..(Len(s) - 1) : ~(s[i] = "_" /\ s[i + 1] = "_")

\* int(token): white space around, an optional sign, the digits
IntBody(token) == RStripWs(LStripWs(token))

IntSigned(token) == IntBody(token) # <<>> /\ Head(IntBody(token)) \in {"+", "-"}

IntDigits(token) == IF IntSigned(token) THEN Tail(IntBody(token)) ELSE IntBody(token)

IntValid(token) == IsDigits(IntDigits(token))

IntValue(token) ==
    IF IntSigned(token) /\ Head(IntBody(token)) = "-"
    THEN 0 - DigitsValue(IntDigits(token), 0)
    ELSE DigitsValue(IntDigits(token), 0)

----------------------------------------------------------------------------
(* The OrderedDict of decode: the items in insertion order.                *)

DictHas(d, k) == \E i \in 1..Len(d) : d[i].k = k

DictGet(d, k) == d[CHOOSE i \in 1..Len(d) : d[i].k = k].v

\* an assignment that moves a key already present to the end
DictSet_MoveToEnd(d, k, v) ==
    Append(SelectSeq(d, LAMBDA e : e.k # k), [k |-> k, v |-> v])

\* data_dict[k] = v: a key already present keeps its place
DictSet(d, k, v) ==
    IF DictHas(d, k)
    THEN [i \in 1..Len(d) |-> IF d[i].k = k THEN [k |-> k, v |-> v] ELSE d[i]]
    ELSE Append(d, [k |-> k, v |-> v])

DictKeys(d) == [i \in 1..Len(d) |-> d[i].k]

\* key = None is <<>>, key = k is <<k>>
None == <<>>
Some(k) == <<k>>

----------------------------------------------------------------------------
(* The state.                                                              *)

VARIABLES
    body,          \* the argument of the call
    pc,            \* where the call is
    split_rest,    \* build: the pieces of SECTION.split(body) not yet built
    phys,          \* build_section: the lines of section.splitlines() not yet seen
    logic_lines,   \* build_section: logic_lines
    section_list,  \* build: section_list
    todo,          \* parse: the sections not yet decoded
    lines,         \* decode: the logical lines not yet seen
    data_dict,     \* decode: data_dict
    key,           \* decode: key
    records,       \* parse: the list of the Records decoded so far
    err,           \* the exception that ended the call, or "none"
    status,        \* what parse_status_code returned
    out,           \* what has been written to standard output
    cache,         \* CustomFieldManager.customfield_cache of the client
    terms,         \* the list the caller passes to search as search_terms
    last,          \* the last call on a record manager: how it ended and the
                   \* HTTP requests it issued
    calls          \* the number of calls made on the record managers

rmVars == << cache, terms, last, calls >>

parserVars == << body, pc, split_rest, phys, logic_lines, section_list, todo,
                 lines, data_dict, key, records, err, status, out >>

vars == << parserVars, rmVars >>

buildVars  == << split_rest, phys, logic_lines, section_list >>
decodeVars == << todo, lines, data_dict, key, records >>

Unset == [kind |-> "unset", val |-> 0]
\* parse_status_code's "return False"
Sentinel == [kind |-> "False", val |-> 0]
IntResult(n) == [kind |-> "int", val |-> n]

\* the shape of the state: what each variable of the call holds
TypeOK ==
    /\ body \in Bodies
    /\ pc \in {"idle", "status_returned", "build", "build_section", "decode",
               "decode_section", "returned", "raised"}
    /\ split_rest \in Seq(Seq(STRING))
    /\ phys \in Seq(Seq(STRING))
    /\ logic_lines \in Seq(Seq(STRING))
    /\ section_list \in Seq(Seq(Seq(STRING)))
    /\ todo \in Seq(Seq(Seq(STRING)))
    /\ lines \in Seq(Seq(STRING))
    /\ \A i \in 1..Len(data_dict) :
          data_dict[i].k \in Seq(STRING) /\ data_dict[i].v \in Seq(STRING)
    /\ key = None \/ (Len(key) = 1 /\ DictHas(data_dict, key[1]))
    /\ Len(records) <= Len(section_list)
    /\ err \in {"none", "IndexError", "KeyError"}
    /\ (pc = "raised") = (err # "none")
    /\ status.kind \in {"unset", "False", "int"}
    /\ (pc = "status_returned") = (status # Unset)
    /\ out \in Seq(Seq(STRING))

\* the names of custom fields looked up, the ids the server gives them
Names == {"f", "g"}
Ids == {1, 2}

\* one entry of a search_terms list: {"field": ..., "value": ...}, the value
\* a string (str) or a number (num)
NameTerm(v) == [field |-> "Name", str |-> v, num |-> 0]
NumTerm(f, n) == [field |-> f, str |-> "", num |-> n]

NoCall == [op |-> "", mgr |-> "", arg |-> "", outcome |-> "", val |-> 0, sent |-> <<>>]

\* "self.customfield_cache = {}": no name has an entry
EmptyCache == [n \in Names |-> [has |-> FALSE, id |-> 0]]

\* a client just built: no call made on its managers yet
RMStart ==
    /\ cache = EmptyCache
    /\ last = NoCall
    /\ calls = 0

Init ==
    /\ RMStart
    /\ terms = <<>>
    /\ body \in Bodies
    /\ pc = "idle"
    /\ split_rest = <<>>
    /\ phys = <<>>
    /\ logic_lines = <<>>
    /\ section_list = <<>>
    /\ todo = <<>>
    /\ lines = <<>>
    /\ data_dict = <<>>
    /\ key = None
    /\ records = <<>>
    /\ err = "none"
    /\ status = Unset
    /\ out = <<>>

----------------------------------------------------------------------------
(* parse_status_code(body)                                                 *)

\* a status code read from the first token of the line
StatusCodeOf_FirstToken(b) ==
    IF SplitLines(b) = <<>> THEN Sentinel
    ELSE IF ~IntValid(SplitSpace(SplitLines(b)[1])[1]) THEN Sentinel
    ELSE IntResult(IntValue(SplitSpace(SplitLines(b)[1])[1]))

\* the try block: body.splitlines()[0], header.split(' ')[1], int(status_code);
\* the bare except turns every exception into False
StatusCodeOf(b) ==
    IF SplitLines(b) = <<>> THEN Sentinel
    ELSE IF Len(SplitSpace(SplitLines(b)[1])) < 2 THEN Sentinel
    ELSE IF ~IntValid(SplitSpace(SplitLines(b)[1])[2]) THEN Sentinel
    ELSE IntResult(IntValue(SplitSpace(SplitLines(b)[1])[2]))

ParseStatusCode ==
    /\ pc = "idle"
    /\ status' = StatusCodeOf(body)
    /\ pc' = "status_returned"
    /\ UNCHANGED << rmVars, body, buildVars, decodeVars, err, out >>

----------------------------------------------------------------------------
(* parse(body): build(body)                                                *)

\* parse calls build, which splits the body and starts its loop
Parse ==
    /\ pc = "idle"
    /\ split_rest' = SectionSplit(body)
    /\ section_list' = <<>>
    /\ pc' = "build"
    /\ UNCHANGED << rmVars, body, phys, logic_lines, decodeVars, err, status, out >>

\* the call build_section(section) of the next piece
BuildSectionCall ==
    /\ pc = "build"
    /\ split_rest # <<>>
    /\ phys' = SplitLines(Head(split_rest))
    /\ logic_lines' = <<>>
    /\ split_rest' = Tail(split_rest)
    /\ pc' = "build_section"
    /\ UNCHANGED << rmVars, body, section_list, decodeVars, err, status, out >>

\* a loop that does not know the header line
LineKind_NoHeader(line) ==
    IF line = <<>> THEN "skip"
    ELSE IF IsSpace(line[1]) THEN "fold"
    ELSE "append"

\* a loop that takes an empty line for a continuation line
LineKind_BlankFolds(line) ==
    IF HeaderMatch(line) THEN "skip"
    ELSE IF line = <<>> \/ IsSpace(line[1]) THEN "fold"
    ELSE "append"

\* the branch build_section's loop takes for a physical line:
\* "if not line or cls.HEADER.match(line): continue", "if line[0].isspace()",
\* "else"
LineKind(line) ==
    IF line = <<>> \/ HeaderMatch(line) THEN "skip"
    ELSE IF IsSpace(line[1]) THEN "fold"
    ELSE "append"

\* a fold that removes the white space the line begins with, and nothing else
FoldInto_LeadingWhiteOnly(ll, line) ==
    [ll EXCEPT ![Len(ll)] = @ \o <<"\n">> \o LStripWs(line)]

\* "logic_lines[-1] += '\n' + line.strip(' ')"
FoldInto(ll, line) ==
    [ll EXCEPT ![Len(ll)] = @ \o <<"\n">> \o StripSp(line)]

SkipLine ==
    /\ pc = "build_section"
    /\ phys # <<>>
    /\ LineKind(Head(phys)) = "skip"
    /\ phys' = Tail(phys)
    /\ UNCHANGED << rmVars, body, pc, split_rest, logic_lines, section_list, decodeVars,
                    err, status, out >>

FoldLine ==
    /\ pc = "build_section"
    /\ phys # <<>>
    /\ LineKind(Head(phys)) = "fold"
    /\ logic_lines # <<>>
    /\ logic_lines' = FoldInto(logic_lines, Head(phys))
    /\ phys' = Tail(phys)
    /\ UNCHANGED << rmVars, body, pc, split_rest, section_list, decodeVars, err, status,
                    out >>

\* logic_lines[-1] of an empty list: IndexError, which nothing catches
FoldLineRaise ==
    /\ pc = "build_section"
    /\ phys # <<>>
    /\ LineKind(Head(phys)) = "fold"
    /\ logic_lines = <<>>
    /\ err' = "IndexError"
    /\ pc' = "raised"
    /\ UNCHANGED << rmVars, body, buildVars, decodeVars, status, out >>

AppendLine ==
    /\ pc = "build_section"
    /\ phys # <<>>
    /\ LineKind(Head(phys)) = "append"
    /\ logic_lines' = Append(logic_lines, Head(phys))
    /\ phys' = Tail(phys)
    /\ UNCHANGED << rmVars, body, pc, split_rest, section_list, decodeVars, err, status,
                    out >>

\* "return logic_lines" and "section_list.append(...)"
BuildSectionReturn ==
    /\ pc = "build_section"
    /\ phys = <<>>
    /\ section_list' = Append(section_list, logic_lines)
    /\ pc' = "build"
    /\ UNCHANGED << rmVars, body, split_rest, phys, logic_lines, decodeVars, err, status,
                    out >>

\* "return section_list": parse goes on to decode each section
BuildReturn ==
    /\ pc = "build"
    /\ split_rest = <<>>
    /\ todo' = section_list
    /\ records' = <<>>
    /\ pc' = "decode"
    /\ UNCHANGED << rmVars, body, buildVars, lines, data_dict, key, err, status, out >>

----------------------------------------------------------------------------
(* parse(body): decode(lines) of each section                              *)

DecodeCall ==
    /\ pc = "decode"
    /\ todo # <<>>
    /\ lines' = Head(todo)
    /\ todo' = Tail(todo)
    /\ data_dict' = <<>>
    /\ key' = None
    /\ pc' = "decode_section"
    /\ UNCHANGED << rmVars, body, buildVars, records, err, status, out >>

\* "if not cls.COMMENT.match(line)" is false: nothing is done with the line
DecodeComment ==
    /\ pc = "decode_section"
    /\ lines # <<>>
    /\ CommentMatch(Head(lines))
    /\ lines' = Tail(lines)
    /\ UNCHANGED << rmVars, body, pc, buildVars, todo, data_dict, key, records, err,
                    status, out >>

\* a key with the white space around it trimmed
FieldKey_Trimmed(line) == RStripWs(LStripWs(SplitColon(line)[1]))

\* "key, value = line.split(':', 1)"
FieldKey(line) == SplitColon(line)[1]

\* "value = value.strip(' ')"
FieldValue(line) == StripSp(SplitColon(line)[2])

\* "value = line.strip(' ')" of a line without a colon
ContValue(line) == StripSp(line)

DecodeField ==
    /\ pc = "decode_section"
    /\ lines # <<>>
    /\ ~CommentMatch(Head(lines))
    /\ HasColon(Head(lines))
    /\ out' = Append(out, Head(lines))
    /\ key' = Some(FieldKey(Head(lines)))
    /\ data_dict' = DictSet(data_dict, FieldKey(Head(lines)), FieldValue(Head(lines)))
    /\ lines' = Tail(lines)
    /\ UNCHANGED << rmVars, body, pc, buildVars, todo, records, err, status >>

\* "data_dict[key] = data_dict[key] + value"
DecodeCont ==
    /\ pc = "decode_section"
    /\ lines # <<>>
    /\ ~CommentMatch(Head(lines))
    /\ ~HasColon(Head(lines))
    /\ key # None
    /\ out' = Append(out, Head(lines))
    /\ data_dict' = DictSet(data_dict, key[1],
                            DictGet(data_dict, key[1]) \o ContValue(Head(lines)))
    /\ lines' = Tail(lines)
    /\ UNCHANGED << rmVars, body, pc, buildVars, todo, key, records, err, status >>

\* data_dict[None] of a dict that has no such key: KeyError, after the print
DecodeContRaise ==
    /\ pc = "decode_section"
    /\ lines # <<>>
    /\ ~CommentMatch(Head(lines))
    /\ ~HasColon(Head(lines))
    /\ key = None
    /\ out' = Append(out, Head(lines))
    /\ err' = "KeyError"
    /\ pc' = "raised"
    /\ UNCHANGED << rmVars, body, buildVars, decodeVars, status >>

\* "return data_dict"
DecodeReturn ==
    /\ pc = "decode_section"
    /\ lines = <<>>
    /\ records' = Append(records, data_dict)
    /\ pc' = "decode"
    /\ UNCHANGED << rmVars, body, buildVars, todo, lines, data_dict, key, err, status,
                    out >>

\* the list comprehension is exhausted: parse returns records
ParseReturn ==
    /\ pc = "decode"
    /\ todo = <<>>
    /\ pc' = "returned"
    /\ UNCHANGED << rmVars, body, buildVars, decodeVars, err, status, out >>

----------------------------------------------------------------------------
(* parse as a function of the body: the same loops, run to their end.  The *)
(* result is the exception raised, or "none" and the value returned.       *)

Raised(e) == [err |-> e, val |-> <<>>]
Returned(v) == [err |-> "none", val |-> v]

RECURSIVE BuildSectionOf(_, _)
BuildSectionOf(ph, ll) ==
    IF ph = <<>> THEN Returned(ll)
    ELSE IF LineKind(Head(ph)) = "skip" THEN BuildSectionOf(Tail(ph), ll)
    ELSE IF LineKind(Head(ph)) = "append"
         THEN BuildSectionOf(Tail(ph), Append(ll, Head(ph)))
    ELSE IF ll = <<>> THEN Raised("IndexError")
    ELSE BuildSectionOf(Tail(ph), FoldInto(ll, Head(ph)))

RECURSIVE BuildOf(_, _)
BuildOf(pieces, sl) ==
    IF pieces = <<>> THEN Returned(sl)
    ELSE IF BuildSectionOf(SplitLines(Head(pieces)), <<>>).err # "none"
         THEN BuildSectionOf(SplitLines(Head(pieces)), <<>>)
    ELSE BuildOf(Tail(pieces),
                 Append(sl, BuildSectionOf(SplitLines(Head(pieces)), <<>>).val))

RECURSIVE DecodeOf(_, _, _)
DecodeOf(ls, d, k) ==
    IF ls = <<>> THEN Returned(d)
    ELSE IF CommentMatch(Head(ls)) THEN DecodeOf(Tail(ls), d, k)
    ELSE IF HasColon(Head(ls))
         THEN DecodeOf(Tail(ls),
                       DictSet(d, FieldKey(Head(ls)), FieldValue(Head(ls))),
                       Some(FieldKey(Head(ls))))
    ELSE IF k = None THEN Raised("KeyError")
    ELSE DecodeOf(Tail(ls),
                  DictSet(d, k[1], DictGet(d, k[1]) \o ContValue(Head(ls))), k)

RECURSIVE DecodeAllOf(_, _)
DecodeAllOf(sl, rs) ==
    IF sl = <<>> THEN Returned(rs)
    ELSE IF DecodeOf(Head(sl), <<>>, None).err # "none"
         THEN DecodeOf(Head(sl), <<>>, None)
    ELSE DecodeAllOf(Tail(sl), Append(rs, DecodeOf(Head(sl), <<>>, None).val))

ParseOf(b) ==
    IF BuildOf(SectionSplit(b), <<>>).err # "none"
    THEN BuildOf(SectionSplit(b), <<>>)
    ELSE DecodeAllOf(BuildOf(SectionSplit(b), <<>>).val, <<>>)

Next ==
    \/ ParseStatusCode
    \/ Parse
    \/ BuildSectionCall
    \/ SkipLine
    \/ FoldLine
    \/ FoldLineRaise
    \/ AppendLine
    \/ BuildSectionReturn
    \/ BuildReturn
    \/ DecodeCall
    \/ DecodeComment
    \/ DecodeField
    \/ DecodeCont
    \/ DecodeContRaise
    \/ DecodeReturn
    \/ ParseReturn

Spec == Init /\ [][Next]_vars

----------------------------------------------------------------------------
(* The record managers of one RTClient.  The server is outside the program: *)
(* what it answers to a request is chosen freely at each request.           *)

\* RTClient.__init__: the managers the client holds, by class
FullManagers == {"queue", "catalog", "asset", "user"}
LimitedManagers == {"group", "customrole", "transaction", "attachment", "customfield"}
Managers == {"ticket"} \cup FullManagers \cup LimitedManagers

\* the methods of RecordManager that LimitedRecordManager redefines
LimitedOps == {"get_all", "create", "update", "delete", "history"}

\* a limited manager whose history is left as RecordManager has it
Unsupported_HistoryForwarded(m, op) ==
    \/ m \in LimitedManagers /\ op \in {"get_all", "create", "update", "delete"}
    \/ m = "ticket" /\ op = "get_all"

\* the method op of manager m is one that raises UnsupportedError
Unsupported(m, op) ==
    \/ m \in LimitedManagers /\ op \in LimitedOps
    \/ m = "ticket" /\ op = "get_all"

\* STATUS_TYPES
STATUS_TYPES == {"new", "open", "stalled", "resolved", "rejected", "deleted"}

\* the statuses a caller hands to change_status
StatusInputs == STATUS_TYPES \cup {"blocked", "closed"}

\* the page and per_page arguments of the calls
Pages == {1, 2}
PerPages == {20, 50}

\* the lists a caller builds and passes to search
CallerLists == { <<>>, <<NameTerm("f")>> }

Request(verb, rtype, path, st, content) ==
    [verb |-> verb, rtype |-> rtype, path |-> path, status |-> st, content |-> content]

\* the request a method of RecordManager (or TicketManager.history) sends
RequestOf(m, op) ==
    CASE op = "create"  -> Request("POST", m, "", "", <<>>)
      [] op = "get"     -> Request("GET", m, "/id", "", <<>>)
      [] op = "get_all" -> Request("GET", m, "s/all", "", <<>>)
      [] op = "update"  -> Request("PUT", m, "/id", "", <<>>)
      [] op = "delete"  -> Request("DELETE", m, "/id", "", <<>>)
      [] op = "history" -> Request("GET", m, "/id/history", "", <<>>)

\* "search_terms.extend([{'field': 'page', ...}, {'field': 'per_page', ...}])":
\* the list after the statement
Extended(list, page, per_page) ==
    list \o << NumTerm("page", page), NumTerm("per_page", per_page) >>

\* a call, how it ended, and the requests it issued
Call(op, m, arg, outcome, val, sent) ==
    [op |-> op, mgr |-> m, arg |-> arg, outcome |-> outcome, val |-> val,
     sent |-> sent]

\* a lookup that never finds the name in the cache
CacheHit_Never(c, n) == FALSE

\* "if self.customfield_cache.get(customfield_name, None)": an entry, and a
\* true value in it
CacheHit(c, n) == c[n].has /\ c[n].id # 0

\* what the server answers to the search of get_id: an HTTP error, no item, or
\* one item and its id
Replies ==
    { [kind |-> "fail", id |-> 0], [kind |-> "empty", id |-> 0] }
        \cup { [kind |-> "found", id |-> i] : i \in Ids }

\* a cache that also remembers that a name was not found
CacheAfter_StoresNone(c, n, reply) ==
    IF reply.kind = "fail" THEN c
    ELSE [c EXCEPT ![n] = [has |-> TRUE, id |-> reply.id]]

\* the cache after get_id has searched: "if search['count'] != 0:
\* self.customfield_cache[customfield_name] = result"
CacheAfter(c, n, reply) ==
    IF reply.kind = "found" THEN [c EXCEPT ![n] = [has |-> TRUE, id |-> reply.id]]
    ELSE c

\* the request of get_id: search on a list made for the call, page=1, per_page=1
GetIdRequest(n) ==
    Request("POST", "customfield", "s", "", Extended(<<NameTerm(n)>>, 1, 1))

GetIdCached(n) ==
    /\ calls < MaxCalls
    /\ CacheHit(cache, n)
    /\ last' = Call("get_id", "customfield", n, "id", cache[n].id, <<>>)
    /\ calls' = calls + 1
    /\ UNCHANGED << parserVars, cache, terms >>

GetIdFound(n, reply) ==
    /\ calls < MaxCalls
    /\ ~CacheHit(cache, n)
    /\ reply.kind = "found"
    /\ cache' = CacheAfter(cache, n, reply)
    /\ last' = Call("get_id", "customfield", n, "id", reply.id, <<GetIdRequest(n)>>)
    /\ calls' = calls + 1
    /\ UNCHANGED << parserVars, terms >>

GetIdNotFound(n, reply) ==
    /\ calls < MaxCalls
    /\ ~CacheHit(cache, n)
    /\ reply.kind = "empty"
    /\ cache' = CacheAfter(cache, n, reply)
    /\ last' = Call("get_id", "customfield", n, "None", 0, <<GetIdRequest(n)>>)
    /\ calls' = calls + 1
    /\ UNCHANGED << parserVars, terms >>

\* the POST of the search fails: raise_for_status raises out of get_id
GetIdFails(n, reply) ==
    /\ calls < MaxCalls
    /\ ~CacheHit(cache, n)
    /\ reply.kind = "fail"
    /\ cache' = CacheAfter(cache, n, reply)
    /\ last' = Call("get_id", "customfield", n, "HTTPError", 0, <<GetIdRequest(n)>>)
    /\ calls' = calls + 1
    /\ UNCHANGED << parserVars, terms >>

\* RecordManager.search(search_terms, page, per_page) with the caller's list;
\* TicketManager has a search of its own.  The call ends as client.post does.
Search(m, page, per_page) ==
    /\ calls < MaxCalls
    /\ m \in Managers \ {"ticket"}
    /\ terms' = Extended(terms, page, per_page)
    /\ last' = Call("search", m, "", "forwarded", 0,
                    << Request("POST", m, "s", "", terms') >>)
    /\ calls' = calls + 1
    /\ UNCHANGED << parserVars, cache >>

\* RecordManager.get(record_id): the call ends as client.get does
Get(m) ==
    /\ calls < MaxCalls
    /\ last' = Call("get", m, "", "forwarded", 0, << RequestOf(m, "get") >>)
    /\ calls' = calls + 1
    /\ UNCHANGED << parserVars, cache, terms >>

\* get_all, create, update, delete or history where the class raises
OpUnsupported(m, op) ==
    /\ calls < MaxCalls
    /\ Unsupported(m, op)
    /\ last' = Call(op, m, "", "UnsupportedError", 0, <<>>)
    /\ calls' = calls + 1
    /\ UNCHANGED << parserVars, cache, terms >>

\* get_all, create, update, delete or history where the class sends the request
\* (create and update without attachments)
OpForwarded(m, op) ==
    /\ calls < MaxCalls
    /\ ~Unsupported(m, op)
    /\ last' = Call(op, m, "", "forwarded", 0, << RequestOf(m, op) >>)
    /\ calls' = calls + 1
    /\ UNCHANGED << parserVars, cache, terms >>

\* TicketManager.change_status: "return self.update(ticket_id, {'Status': new_status})"
ChangeStatusValid(st) ==
    /\ calls < MaxCalls
    /\ st \in STATUS_TYPES
    /\ last' = Call("change_status", "ticket", st, "forwarded", 0,
                    << Request("PUT", "ticket", "/id", st, <<>>) >>)
    /\ calls' = calls + 1
    /\ UNCHANGED << parserVars, cache, terms >>

\* TicketManager.change_status: "raise ValueError(...)"
ChangeStatusInvalid(st) ==
    /\ calls < MaxCalls
    /\ st \notin STATUS_TYPES
    /\ last' = Call("change_status", "ticket", st, "ValueError", 0, <<>>)
    /\ calls' = calls + 1
    /\ UNCHANGED << parserVars, cache, terms >>

\* a client just built, a list its caller holds, no parser call
InitRM ==
    /\ RMStart
    /\ terms \in CallerLists
    /\ body = <<>>
    /\ pc = "idle"
    /\ split_rest = <<>>
    /\ phys = <<>>
    /\ logic_lines = <<>>
    /\ section_list = <<>>
    /\ todo = <<>>
    /\ lines = <<>>
    /\ data_dict = <<>>
    /\ key = None
    /\ records = <<>>
    /\ err = "none"
    /\ status = Unset
    /\ out = <<>>

NextRM ==
    \/ \E n \in Names : GetIdCached(n)
    \/ \E n \in Names : \E reply \in Replies : GetIdFound(n, reply)
    \/ \E n \in Names : \E reply \in Replies : GetIdNotFound(n, reply)
    \/ \E n \in Names : \E reply \in Replies : GetIdFails(n, reply)
    \/ \E m \in Managers : \E page \in Pages : \E per_page \in PerPages :
          Search(m, page, per_page)
    \/ \E m \in Managers : Get(m)
    \/ \E m \in Managers : \E op \in LimitedOps : OpUnsupported(m, op)
    \/ \E m \in Managers : \E op \in LimitedOps : OpForwarded(m, op)
    \/ \E st \in StatusInputs : ChangeStatusValid(st)
    \/ \E st \in StatusInputs : ChangeStatusInvalid(st)

SpecRM == InitRM /\ [][NextRM]_vars

----------------------------------------------------------------------------
(* Helpers of the properties: lines and text of a body, told apart from    *)
(* the parser's own operators.                                             *)

\* the positions of the newlines of b
NewlinesOf(b) == { i \in 1..Len(b) : b[i] = "\n" }

\* the positions at which a line of b starts
LineStartsOf(b) ==
    { i \in 1..Len(b) : i = 1 \/ b[i - 1] = "\n" }

\* the lines of b that begin with two dashes
DelimiterStartsOf(b) ==
    { i \in LineStartsOf(b) : i < Len(b) /\ b[i] = "-" /\ b[i + 1] = "-" }

\* s without the space characters of its two ends
TrimSpaces(s) ==
    LET kept == { i \in 1..Len(s) : s[i] # " " }
        lo == CHOOSE i \in kept : \A j \in kept : i <= j
        hi == CHOOSE i \in kept : \A j \in kept : j <= i
    IN IF kept = {} THEN <<>> ELSE SubSeq(s, lo, hi)

\* s without the white space it begins with
DropLeadingWhite(s) ==
    LET kept == { i \in 1..Len(s) : ~IsSpace(s[i]) }
        lo == CHOOSE i \in kept : \A j \in kept : i <= j
    IN IF kept = {} THEN <<>> ELSE SubSeq(s, lo, Len(s))

\* s without the space characters it begins with
DropLeadingSpaces(s) ==
    LET kept == { i \in 1..Len(s) : s[i] # " " }
        lo == CHOOSE i \in kept : \A j \in kept : i <= j
    IN IF kept = {} THEN <<>> ELSE SubSeq(s, lo, Len(s))

\* s without the white space of its two ends
TrimWhite(s) ==
    LET kept == { i \in 1..Len(s) : ~IsSpace(s[i]) }
        lo == CHOOSE i \in kept : \A j \in kept : i <= j
        hi == CHOOSE i \in kept : \A j \in kept : j <= i
    IN IF kept = {} THEN <<>> ELSE SubSeq(s, lo, hi)

\* the positions of the colons of a line
ColonsOf(line) == { i \in 1..Len(line) : line[i] = ":" }

LeftOfColon(line) ==
    SubSeq(line, 1, (CHOOSE i \in ColonsOf(line) : \A j \in ColonsOf(line) : i <= j) - 1)

RightOfColon(line) ==
    SubSeq(line, (CHOOSE i \in ColonsOf(line) : \A j \in ColonsOf(line) : i <= j) + 1,
           Len(line))

\* the character c occurs in a key or in a value of a Record of rs
Occurs(c, rs) ==
    \E r \in 1..Len(rs) : \E f \in 1..Len(rs[r]) :
        \/ \E i \in 1..Len(rs[r][f].k) : rs[r][f].k[i] = c
        \/ \E i \in 1..Len(rs[r][f].v) : rs[r][f].v[i] = c

Field(k, v) == [k |-> k, v |-> v]

----------------------------------------------------------------------------
(* C1 *)

\* C1 as stated: parse returns one Record when no line starts with "--", and for
\* N delimiter lines N+1 Records if there is text before the first delimiter,
\* otherwise N Records.
C1_CountAsStated ==
    pc = "returned" =>
        Len(records) =
            IF DelimiterStartsOf(body) = {} THEN 1
            ELSE IF 1 \in DelimiterStartsOf(body)
                 THEN Cardinality(DelimiterStartsOf(body))
                 ELSE Cardinality(DelimiterStartsOf(body)) + 1

\* C1 as amended: whenever parse returns, it returns exactly N+1 Records for a
\* body with N lines that start with "--", the text before the first delimiter
\* being a section of its own even when it is empty; the body
\* "--\nA: 1\n--\nB: 2\n" yields {}, {A: "1"}, {B: "2"} in that order.
C1_OneRecordPerPiece ==
    pc = "returned" =>
        /\ Len(records) = Cardinality(DelimiterStartsOf(body)) + 1
        /\ body = ExTwoSections =>
              records = << <<>>,
                           << Field(<<"A">>, <<"1">>) >>,
                           << Field(<<"B">>, <<"2">>) >> >>

C1_Witness ==
    /\ pc = "returned"
    /\ body = ExTwoSections
    /\ Len(records) = 3

----------------------------------------------------------------------------
(* C2 *)

\* C2 as stated: parse never raises; every call returns a sequence of Records.
C2_ParseNeverRaises == pc # "raised" /\ err = "none"

----------------------------------------------------------------------------
(* C3 *)

\* build_section is about to see a continuation line and has a logical line
AtContinuation ==
    /\ pc = "build_section"
    /\ phys # <<>>
    /\ Head(phys) # <<>>
    /\ IsSpace(Head(phys)[1])
    /\ logic_lines # <<>>

\* C3 as stated: a continuation line starts no logical line; its content with
\* exactly its leading white space removed, otherwise unchanged, is appended to
\* the last logical line after one newline.
C3_FoldAsStated ==
    [][AtContinuation =>
          logic_lines' = [logic_lines EXCEPT ![Len(logic_lines)] =
                              @ \o <<"\n">> \o DropLeadingWhite(Head(phys))]]_vars

\* C3 as amended: a continuation line starts no logical line; its content with
\* the space characters of both its ends removed (a tab is kept), otherwise
\* unchanged, is appended to the last logical line after one newline, the other
\* logical lines staying as they are; "A: hello\n world\n" parses to the single
\* Record {A: "hello\nworld"}.
C3_FoldStripsSpaces ==
    [][/\ AtContinuation =>
            /\ Len(logic_lines') = Len(logic_lines)
            /\ \A i \in 1..(Len(logic_lines) - 1) : logic_lines'[i] = logic_lines[i]
            /\ logic_lines'[Len(logic_lines)] =
                  logic_lines[Len(logic_lines)] \o <<"\n">> \o TrimSpaces(Head(phys))
            /\ phys' = Tail(phys)
       /\ (body = ExFold /\ pc' = "returned") =>
            records' = << << Field(<<"A">>,
                                   <<"h", "e", "l", "l", "o", "\n",
                                     "w", "o", "r", "l", "d">>) >> >>
      ]_vars

C3_Witness ==
    /\ body = Join(<<LField1, LCont>>)
    /\ pc = "returned"
    /\ records = << << Field(<<"A">>, <<"1", "\n", "w">>) >> >>

----------------------------------------------------------------------------
(* C4, C5 *)

\* decode is about to see a field line / a line without a colon
AtFieldLine ==
    /\ pc = "decode_section"
    /\ lines # <<>>
    /\ ~CommentMatch(Head(lines))
    /\ ColonsOf(Head(lines)) # {}

AtColonlessLine ==
    /\ pc = "decode_section"
    /\ lines # <<>>
    /\ ~CommentMatch(Head(lines))
    /\ ColonsOf(Head(lines)) = {}

\* the Record d holds v under k
Holds(d, k, v) == \E i \in 1..Len(d) : d[i] = Field(k, v)

KeysOf(d) == { d[i].k : i \in 1..Len(d) }

\* every key of d but k has in e the place and the value it has in d
OthersKept(d, e, k) ==
    /\ Len(e) >= Len(d)
    /\ \A i \in 1..Len(d) : d[i].k # k => e[i] = d[i]

\* C4: decode folds the non-comment logical lines from left to right with one
\* current key.  A field line makes its key the current key and sets Record[key]
\* to that line's value alone; a line without a colon is concatenated (its text
\* without the spaces of its ends), with no separator, onto the value of the
\* current key and changes no other key and not the current key; the keys stay
\* in the order of their first appearance.
C4_DecodeFold ==
    [][/\ AtFieldLine =>
            /\ key' = Some(LeftOfColon(Head(lines)))
            /\ Holds(data_dict', LeftOfColon(Head(lines)),
                     TrimSpaces(RightOfColon(Head(lines))))
            /\ OthersKept(data_dict, data_dict', LeftOfColon(Head(lines)))
            /\ DictKeys(data_dict') =
                  IF LeftOfColon(Head(lines)) \in KeysOf(data_dict)
                  THEN DictKeys(data_dict)
                  ELSE Append(DictKeys(data_dict), LeftOfColon(Head(lines)))
            /\ Cardinality(KeysOf(data_dict')) = Len(data_dict')
       /\ (AtColonlessLine /\ key # None) =>
            /\ key' = key
            /\ \E old \in { data_dict[i].v : i \in 1..Len(data_dict) } :
                  /\ Holds(data_dict, key[1], old)
                  /\ Holds(data_dict', key[1], old \o TrimSpaces(Head(lines)))
            /\ OthersKept(data_dict, data_dict', key[1])
            /\ DictKeys(data_dict') = DictKeys(data_dict)
       /\ (body = Join(<<LField2, LField1, LField2>>) /\ pc' = "returned") =>
            records' = << << Field(<<"B">>, <<"2">>), Field(<<"A">>, <<"1">>) >> >>
       /\ (body = Join(<<LField1, LNoColon, LNoColon>>) /\ pc' = "returned") =>
            records' = << << Field(<<"A">>, <<"1", "x", "x">>) >> >>
      ]_vars

C4_Witness ==
    /\ body = Join(<<LField1, LNoColon, LField1>>)
    /\ pc = "returned"
    /\ records = << << Field(<<"A">>, <<"1">>) >> >>

\* C5 as stated: a field line is split at its first colon; the key stored is the
\* left part with the white space around it trimmed, the value stored is the right
\* part with only its leading space stripped.
C5_SplitAsStated ==
    [][AtFieldLine =>
          /\ key' = Some(TrimWhite(LeftOfColon(Head(lines))))
          /\ Holds(data_dict', TrimWhite(LeftOfColon(Head(lines))),
                   DropLeadingSpaces(RightOfColon(Head(lines))))]_vars

\* C5 as amended: a field line is split once at its first colon; the key stored
\* is the left part exactly as it stands, no white space trimmed, and the value
\* stored is the right part without the space characters of its two ends, later
\* colons and inner text kept.
C5_SplitKeepsKey ==
    [][AtFieldLine =>
          /\ key' = Some(LeftOfColon(Head(lines)))
          /\ Holds(data_dict', LeftOfColon(Head(lines)),
                   TrimSpaces(RightOfColon(Head(lines))))
          /\ \A i \in 1..Len(data_dict') :
                data_dict'[i].k = LeftOfColon(Head(lines)) =>
                    data_dict'[i].v = TrimSpaces(RightOfColon(Head(lines)))]_vars

C5_Witness ==
    /\ body = Join(<<LKeySp>>)
    /\ pc = "returned"
    /\ records = << << Field(<<"A", " ">>, <<"3", ":", "4">>) >> >>

----------------------------------------------------------------------------
(* C6 *)

\* C6 as stated: a comment line adds no key and no value text to any Record,
\* whatever precedes or follows it.  Of the lines of the inputs only the comment
\* line holds a "#" or an "m".
C6_CommentExcluded ==
    pc = "returned" => ~Occurs("#", records) /\ ~Occurs("m", records)

----------------------------------------------------------------------------
(* C7 *)

\* a line of the form RT/<version> <code> <reason>
StatusLineForm(line) ==
    /\ Len(SplitSpace(line)) >= 3
    /\ Len(SplitSpace(line)[1]) > 3
    /\ SubSeq(SplitSpace(line)[1], 1, 3) = <<"R", "T", "/">>
    /\ SplitSpace(line)[2] # <<>>
    /\ \A i \in 1..Len(SplitSpace(line)[2]) : IsDigit(SplitSpace(line)[2][i])
    /\ SplitSpace(line)[3] # <<>>

\* C7: a header line is skipped during line building: it neither becomes nor
\* extends a logical line, and no Record that parse returns holds text of it (of
\* the lines of the inputs only the header line holds "R", "T", "/", "O" or "k");
\* "RT/4.4.3 200 Ok\nA: 1\n" parses to the single Record {A: "1"}.
C7_HeaderSkipped ==
    [][/\ (pc = "build_section" /\ phys # <<>> /\ StatusLineForm(Head(phys))) =>
            /\ logic_lines' = logic_lines
            /\ phys' = Tail(phys)
            /\ pc' = "build_section"
       /\ pc' = "returned" =>
            \A c \in {"R", "T", "/", "O", "k"} : ~Occurs(c, records')
       /\ (body = Join(<<LHeader, LField1>>) /\ pc' = "returned") =>
            records' = << << Field(<<"A">>, <<"1">>) >> >>
      ]_vars

C7_Witness ==
    /\ body = Join(<<LField1, LHeader, LCont>>)
    /\ pc = "returned"
    /\ records = << << Field(<<"A">>, <<"1", "\n", "w">>) >> >>

----------------------------------------------------------------------------
(* C8 *)

\* b without its empty lines
RECURSIVE WithoutBlankFrom(_, _)
WithoutBlankFrom(b, i) ==
    IF i > Len(b) THEN <<>>
    ELSE IF b[i] = "\n" /\ i \in LineStartsOf(b) THEN WithoutBlankFrom(b, i + 1)
    ELSE <<b[i]>> \o WithoutBlankFrom(b, i + 1)

WithoutBlank(b) == WithoutBlankFrom(b, 1)

\* C8: an empty physical line neither starts nor extends a logical line, so the
\* outcome of parse (the Records it returns, or the exception) is that of the
\* body with its empty lines removed.
C8_BlankSkipped ==
    [][/\ (pc = "build_section" /\ phys # <<>> /\ Head(phys) = <<>>) =>
            /\ logic_lines' = logic_lines
            /\ phys' = Tail(phys)
            /\ pc' = "build_section"
       /\ pc' = "returned" =>
            /\ ParseOf(WithoutBlank(body)).err = "none"
            /\ records' = ParseOf(WithoutBlank(body)).val
       /\ pc' = "raised" => err' = ParseOf(WithoutBlank(body)).err
      ]_vars

C8_Witness ==
    /\ body = Join(<<LField1, LBlank, LCont>>)
    /\ pc = "returned"
    /\ records = << << Field(<<"A">>, <<"1", "\n", "w">>) >> >>

----------------------------------------------------------------------------
(* C9 *)

\* the pieces put together again, two dashes between them
RECURSIVE JoinDashes(_)
JoinDashes(ps) ==
    IF Len(ps) <= 1 THEN (IF ps = <<>> THEN <<>> ELSE Head(ps))
    ELSE Head(ps) \o <<"-", "-">> \o JoinDashes(Tail(ps))

\* C9 as stated: the whole of a line that begins with "--" is discarded, so no
\* Record holds text that follows the dashes on that line.  Of the lines of the
\* inputs only the line "--z: 3" holds a "z".
C9_WholeLineDiscarded ==
    pc = "returned" => ~Occurs("z", records)

\* C9 as amended: of a line that begins with "--" only the two dashes are
\* discarded; what follows them on that line is the first physical line of the
\* following section, so the body "--z: 3\n" parses to {} and {z: "3"}.
C9_OnlyDashesDiscarded ==
    /\ (pc = "build" /\ section_list = <<>>) => JoinDashes(split_rest) = body
    /\ (pc = "returned" /\ body = Join(<<LDelimText>>)) =>
          records = << <<>>, << Field(<<"z">>, <<"3">>) >> >>
    /\ (pc = "returned" /\ body = Join(<<LField1, LDelimText>>)) =>
          records = << << Field(<<"A">>, <<"1">>) >>, << Field(<<"z">>, <<"3">>) >> >>

C9_Witness ==
    /\ body = Join(<<LField1, LDelimText>>)
    /\ pc = "returned"
    /\ Occurs("z", records)

----------------------------------------------------------------------------
(* C10 *)

Least(S) == CHOOSE i \in S : \A j \in S : i <= j

\* the text of b before its first newline
FirstLineOf(b) ==
    IF NewlinesOf(b) = {} THEN b ELSE SubSeq(b, 1, Least(NewlinesOf(b)) - 1)

SpacesOf(s) == { i \in 1..Len(s) : s[i] = " " }

\* the text between the first space of s and the next one
SecondTokenOf(s) ==
    LET later == { i \in SpacesOf(s) : i > Least(SpacesOf(s)) }
    IN SubSeq(s, Least(SpacesOf(s)) + 1,
              IF later = {} THEN Len(s) ELSE Least(later) - 1)

\* C10: parse_status_code never raises; it returns the integer value of the
\* second token of the first line, the tokens being separated by single spaces,
\* and the failure sentinel when there is no such token or it is no integer;
\* "RT/4.4.3 200 Ok\n..." gives 200 and "garbage" the sentinel.
C10_StatusCode ==
    pc = "status_returned" =>
        /\ err = "none"
        /\ status =
              IF SpacesOf(FirstLineOf(body)) = {} THEN Sentinel
              ELSE IF ~IntValid(SecondTokenOf(FirstLineOf(body))) THEN Sentinel
              ELSE IntResult(IntValue(SecondTokenOf(FirstLineOf(body))))
        /\ FirstLineOf(body) = LHeader => status = IntResult(200)
        /\ body = ExGarbage => status = Sentinel
        /\ body = <<>> => status = Sentinel
        /\ body = ExTwoSpaces => status = Sentinel
        /\ body = Join(<<LKeySp>>) => status = Sentinel
        /\ body = ExNegative => status = IntResult(0 - 5)

C10_Witness ==
    /\ pc = "status_returned"
    /\ body = Join(<<LHeader, LField1>>)
    /\ status = IntResult(200)

----------------------------------------------------------------------------
(* C11 *)

\* a step that is one call of get_id
GetIdStep == calls' = calls + 1 /\ last'.op = "get_id"

\* C11: once get_id(name) has obtained an id from a search it is cached forever:
\* no cache entry is ever removed or changed, the id a search finds is the one
\* stored, and every later get_id(name) returns the stored id and issues no
\* search request, whatever the server would answer.
C11_CachedForever ==
    [][ /\ \A n \in Names : cache[n].has => cache'[n] = cache[n]
        /\ (GetIdStep /\ last'.outcome = "id" /\ last'.sent # <<>>)
              => cache'[last'.arg] = [has |-> TRUE, id |-> last'.val]
        /\ (GetIdStep /\ cache[last'.arg].has)
              => /\ last'.outcome = "id"
                 /\ last'.val = cache[last'.arg].id
                 /\ last'.sent = <<>>
      ]_vars

\* get_id("f") answered from the cache, after "f" and then "g" were looked up
C11_Witness ==
    /\ calls = 3
    /\ cache["f"].has /\ cache["g"].has
    /\ last.op = "get_id" /\ last.arg = "f"
    /\ last.outcome = "id" /\ last.val = cache["f"].id
    /\ last.sent = <<>>

(* C12 *)

\* C12 as stated: parse and parse_status_code are pure functions of the body: a
\* call performs no I/O, nothing is written to any output stream.
C12_NothingWritten == pc \in {"returned", "status_returned"} => out = <<>>

(* C13 *)

\* the states the documentation of change_status names as valid
C13_NamedStates == {"new", "open", "blocked", "stalled", "resolved", "rejected"}

\* C13 as stated: change_status issues exactly one update request setting Status
\* to new_status for each of "new", "open", "blocked", "stalled", "resolved" and
\* "rejected"; a call that raises ValueError issues no request, and a status
\* that is no ticket state raises ValueError.
C13_ChangeStatus ==
    [][ (calls' = calls + 1 /\ last'.op = "change_status") =>
           /\ last'.arg \in C13_NamedStates =>
                 /\ Len(last'.sent) = 1
                 /\ last'.sent[1].verb = "PUT"
                 /\ last'.sent[1].rtype = "ticket"
                 /\ last'.sent[1].status = last'.arg
                 /\ last'.outcome # "ValueError"
           /\ last'.outcome = "ValueError" => last'.sent = <<>>
           /\ last'.arg \in {"closed"} =>
                 last'.outcome = "ValueError" /\ last'.sent = <<>>
      ]_vars

(* C14 *)

\* the limited record managers of a client, as the claim lists them
C14_Limited == {"group", "customrole", "transaction", "attachment", "customfield"}

\* C14: on every limited record manager get_all, create, update, delete and
\* history raise UnsupportedError and issue no HTTP request, while get and search
\* send one request for the manager's record type; on the ticket manager get_all
\* raises UnsupportedError and issues no request.
C14_LimitedManagers ==
    [][ calls' = calls + 1 =>
           /\ ( \/ /\ last'.mgr \in C14_Limited
                   /\ last'.op \in {"get_all", "create", "update", "delete", "history"}
                \/ last'.mgr = "ticket" /\ last'.op = "get_all" )
                 => last'.outcome = "UnsupportedError" /\ last'.sent = <<>>
           /\ (last'.mgr \in C14_Limited /\ last'.op \in {"get", "search"})
                 => /\ last'.outcome = "forwarded"
                    /\ Len(last'.sent) = 1
                    /\ last'.sent[1].rtype = last'.mgr
                    /\ last'.sent[1].verb = (IF last'.op = "get" THEN "GET" ELSE "POST")
      ]_vars

\* history was called on the customfield manager
C14_Witness ==
    /\ last.mgr = "customfield" /\ last.op = "history"
    /\ last.outcome = "UnsupportedError"
    /\ last.sent = <<>>

(* C15 *)

\* the search request get_id sends for a name
C15_SearchFor(n) ==
    [verb |-> "POST", rtype |-> "customfield", path |-> "s", status |-> "",
     content |-> << [field |-> "Name", str |-> n, num |-> 0],
                    [field |-> "page", str |-> "", num |-> 1],
                    [field |-> "per_page", str |-> "", num |-> 1] >>]

\* C15: an unsuccessful lookup is never cached: a get_id that returns None has
\* searched and leaves the cache unchanged, every get_id of a name with no entry
\* issues a search request, only a lookup that returns an id writes the cache,
\* and it writes the entry of its own name only.
C15_NotFoundNotCached ==
    /\ [](\A n \in Names : cache[n].has => cache[n].id \in Ids)
    /\ [][ (calls' = calls + 1 /\ last'.op = "get_id") =>
              /\ last'.outcome = "None" =>
                    cache' = cache /\ last'.sent = << C15_SearchFor(last'.arg) >>
              /\ ~cache[last'.arg].has => last'.sent = << C15_SearchFor(last'.arg) >>
              /\ cache' # cache => last'.outcome = "id"
              /\ \A n \in Names : n # last'.arg => cache'[n] = cache[n]
         ]_vars

\* get_id("f") found nothing and left no entry, while "g" is cached
C15_Witness ==
    /\ last.op = "get_id" /\ last.arg = "f"
    /\ last.outcome = "None"
    /\ ~cache["f"].has
    /\ cache["g"].has

(* C16 *)

\* the number of entries of a list of terms that name the field f
C16_CountField(list, f) == Cardinality({ i \in DOMAIN list : list[i].field = f })

\* C16 as stated: search leaves the caller's search_terms unchanged, and the
\* request body is the caller's terms followed by exactly one page entry and
\* exactly one per_page entry.
C16_TermsUnchanged ==
    [][ (calls' = calls + 1 /\ last'.op = "search") =>
           /\ terms' = terms
           /\ C16_CountField(last'.sent[1].content, "page") = 1
           /\ C16_CountField(last'.sent[1].content, "per_page") = 1
      ]_vars

====
